---- MODULE Spec2Model ----
(***************************************************************************)
(* FollowFly: the vision tracking loop (vision_tracker.py), the follow     *)
(* loop (follow_controller.py) and the distance profiles                   *)
(* (FollowDistances/tracking_profiles.py).                                 *)
(*                                                                         *)
(* The runs specified, over one set of variables:                          *)
(*   SpecCalc      calculate_movement_vector applied to drawn inputs       *)
(*   SpecCtor      DistanceProfile(...) called on drawn arguments          *)
(*   SpecPx        _detect_person and _update_target_position applied to   *)
(*                 a drawn frame                                           *)
(*   SpecVision    VisionTracker.start / _tracking_loop / stop             *)
(*   SpecRead      the first vision session with a thread calling          *)
(*                 get_target_position / get_target_distance beside it     *)
(*   SpecFollow    FollowController.start_following / follow_loop /        *)
(*                 stop_following / change_tracking_distance               *)
(*   SpecVelocity  the union of the SpecCalc and SpecFollow runs           *)
(*   SpecShutdown  main.py: start, quit and shutdown() with both loops     *)
(* and, with a join(timeout=5.0) that may return while the thread lives:   *)
(*   SpecCamera       VisionTracker with callers of capture_frame          *)
(*   SpecVisionStray  VisionTracker restarted beside a thread it dropped   *)
(*   SpecFollowStray  FollowController likewise, up to disconnect()        *)
(*                                                                         *)
(* Python floats are modelled by exact arithmetic: rationals <<n, d>> and, *)
(* where the code takes a square root, numbers of the form q * sqrt(r).    *)
(* IEEE rounding (relative error about 1e-16) is not modelled.             *)
(* Python's None is the empty tuple <<>>.                                  *)
(***************************************************************************)
EXTENDS Integers, Sequences, FiniteSets, TLC

VARIABLES
    \* ---- calculate_movement_vector applied as a pure function
    calc_in,                \* <<>> or [profile, current, target]
    calc_out,               \* <<>> or the returned (vx, vy, vz)
    \* ---- DistanceProfile(...) called on drawn arguments
    ctor_in,                \* <<>> or the arguments of DistanceProfile.__init__
    ctor_out,               \* <<>> or [raised, object]
    \* ---- _detect_person and _update_target_position applied to a drawn frame
    px_in,                  \* <<>> or [boxes, width]: the detector's boxes, the frame width
    px_out,                 \* <<>> or [largest_box, bbox, raised, position]
    \* ---- VisionTracker
    cap,                    \* self.cap: "none" | "open" | "unopened"
    frame_width,            \* self.frame_width
    frame_height,           \* self.frame_height
    target_position,        \* self.target_position: <<>> or (ned_x, ned_y, ned_z)
    target_bbox,            \* self.target_bbox: <<>> or (x, y, w, h)
    last_detection_time,    \* self.last_detection_time
    is_running,             \* self.is_running
    v_stop_event,           \* VisionTracker.stop_event
    tracker,                \* self.tracker: "created" | "initialised"
    vpc,                    \* position of the _tracking_loop thread
    tracking_initialized,   \* local of _tracking_loop
    current_time,           \* local of _tracking_loop
    vmain,                  \* position of the caller inside stop()
    now,                    \* time.time()
    lastCycle,              \* history: branch taken by the last processed frame
    prevCycle,              \* history: branch taken by the processed frame before it
    estimator_bbox,         \* history: last bbox given to _update_target_position
    sessionFrames,          \* history: frames processed since start(): 0, 1, 2 (two or more)
    lastSuccess,            \* history: current_time of the last successful detection
    published,              \* history: what target_position held during the reader's call
    v_laps,                 \* history: iterations _tracking_loop ended with its stop event set: 0, 1, 2 (two or more)
    \* ---- a thread calling get_target_position() / get_target_distance()
    rpc,                    \* position of the reader: "idle" | "unpack"
    r_seen,                 \* what the reader's last call saw: [failed, value]
    \* ---- main.py
    mainpc,                 \* position of the main thread; "none": no main program
    vehicle,                \* follow_controller.vehicle: "connected" | "rtl" | "closed"
    \* ---- FollowController
    is_following,           \* self.is_following
    f_stop_event,           \* FollowController.stop_event
    tracking_profile,       \* self.tracking_profile
    fpc,                    \* position of the follow_loop thread
    f_target,               \* local target_position of follow_loop
    f_self,                 \* the profile object line 161 read from self.tracking_profile
    f_current,              \* local current_position of follow_loop
    movement_vector,        \* local movement_vector of follow_loop
    fmain,                  \* position of the caller inside stop_following()
    tickCmds,               \* history: send_velocity_command calls of the current tick
    tickProfile,            \* history: profile the current tick computed with
    afterStop,              \* history: send_velocity_command calls after the loop saw the stop signal
    tickActive,             \* history: the profiles that were active since the current tick began
    requested,              \* history: the distance of the last get_profile call of the controller
    f_laps,                 \* history: iterations follow_loop ended with its stop event set: 0, 1, 2 (two or more)
    \* ---- threads no attribute refers to, and callers of capture_frame()
    v_parked,               \* <<>> or the context of the _tracking_loop thread that is not running
    f_parked,               \* <<>> or the context of the follow_loop thread that is not running
    cpc                     \* position of a caller inside capture_frame(): "idle" | "read"

calcVars == <<calc_in, calc_out, ctor_in, ctor_out, px_in, px_out>>
visionVars == <<cap, frame_width, frame_height, target_position, target_bbox,
                last_detection_time, is_running, v_stop_event, tracker, vpc,
                tracking_initialized, current_time, vmain, now, lastCycle,
                prevCycle, estimator_bbox, sessionFrames, lastSuccess,
                published, v_laps>>
followVars == <<is_following, f_stop_event, tracking_profile, fpc, f_target,
                f_current, movement_vector, fmain, tickCmds, tickProfile,
                afterStop, f_self, tickActive, requested, f_laps>>
readVars == <<rpc, r_seen>>
mainVars == <<mainpc, vehicle>>
strayVars == <<v_parked, f_parked, cpc>>
vars == <<calcVars, visionVars, followVars, readVars, mainVars, strayVars>>

None == <<>>

-----------------------------------------------------------------------------
(* Exact arithmetic.                                                       *)

Abs(x) == IF x < 0 THEN -x ELSE x

RECURSIVE GCD(_, _)
GCD(a, b) == IF b = 0 THEN a ELSE GCD(b, a % b)

\* The rational n/d in lowest terms with a positive denominator.
Rat(n, d) ==
    LET g == GCD(Abs(n), Abs(d))
        s == IF d < 0 THEN -1 ELSE 1
    IN  <<(s * n) \div g, (s * d) \div g>>

RInt(n) == <<n, 1>>
RZero == RInt(0)
RAdd(a, b) == Rat(a[1] * b[2] + b[1] * a[2], a[2] * b[2])
RNeg(a) == <<-a[1], a[2]>>
RSub(a, b) == RAdd(a, RNeg(b))
RMul(a, b) == Rat(a[1] * b[1], a[2] * b[2])
RDiv(a, b) == Rat(a[1] * b[2], a[2] * b[1])
RLe(a, b) == a[1] * b[2] <= b[1] * a[2]
RLt(a, b) == a[1] * b[2] < b[1] * a[2]
RSq(a) == RMul(a, a)

\* floor(sqrt(n)) by bisection on lo..hi.
RECURSIVE SqrtSearch(_, _, _)
SqrtSearch(n, lo, hi) ==
    IF lo >= hi THEN lo
    ELSE LET mid == (lo + hi + 1) \div 2
         IN  IF mid * mid <= n THEN SqrtSearch(n, mid, hi)
             ELSE SqrtSearch(n, lo, mid - 1)

ISqrt(n) == SqrtSearch(n, 0, IF n < 46340 THEN n ELSE 46340)
IsSquare(n) == ISqrt(n) * ISqrt(n) = n

\* A real q * sqrt(r), q rational, r a positive rational; r = 1 for a rational.
Real(q, r) ==
    IF q = RZero THEN [q |-> RZero, r |-> RInt(1)]
    ELSE IF IsSquare(r[1]) /\ IsSquare(r[2])
         THEN [q |-> RMul(q, Rat(ISqrt(r[1]), ISqrt(r[2]))), r |-> RInt(1)]
         ELSE [q |-> q, r |-> r]

RealOf(q) == Real(q, RInt(1))
RealSqrt(a) == IF a = RZero THEN RealOf(RZero) ELSE Real(RInt(1), a)
RealMul(a, b) == Real(RMul(a.q, b.q), RMul(a.r, b.r))
\* a / b = (a.q / (b.q * b.r)) * sqrt(a.r * b.r)
RealDiv(a, b) == Real(RDiv(a.q, RMul(b.q, b.r)), RMul(a.r, b.r))
RealSq(a) == RMul(RSq(a.q), a.r)
RealSign(a) == IF a.q[1] > 0 THEN 1 ELSE IF a.q[1] < 0 THEN -1 ELSE 0
\* a <= b for a, b >= 0
RealLe(a, b) == RLe(RealSq(a), RealSq(b))
RealMin(a, b) == IF RealLe(a, b) THEN a ELSE b
\* the rational a real with r = 1 stands for
RatOf(a) == a.q

-----------------------------------------------------------------------------
(* tracking_profiles.py                                                    *)

\* DistanceProfile.__init__: the five fields, stored as given.
DistanceProfile(td, alt, ho, tol, ms) ==
    [target_distance |-> td, altitude |-> alt, horizontal_offset |-> ho,
     distance_tolerance |-> tol, max_speed |-> ms]

CloseProfile == DistanceProfile(RInt(3), Rat(5, 2), RZero, Rat(3, 10), Rat(3, 2))
MediumProfile == DistanceProfile(RInt(5), RInt(3), RZero, Rat(1, 2), RInt(2))
FarProfile == DistanceProfile(RInt(10), RInt(4), RZero, RInt(1), RInt(3))
VeryFarProfile == DistanceProfile(RInt(20), RInt(8), RZero, RInt(2), RInt(5))

\* The mutant of get_profile: the thresholds compared with < instead of <=.
GetProfileExclusive(distance) ==
    IF RLt(distance, RInt(3)) THEN CloseProfile
    ELSE IF RLt(distance, RInt(5)) THEN MediumProfile
    ELSE IF RLt(distance, RInt(10)) THEN FarProfile
    ELSE VeryFarProfile

get_profile(distance) ==
    IF RLe(distance, RInt(3)) THEN CloseProfile
    ELSE IF RLe(distance, RInt(5)) THEN MediumProfile
    ELSE IF RLe(distance, RInt(10)) THEN FarProfile
    ELSE VeryFarProfile

\* An angle is kept as its <<cos, sin>>.  np.arctan2(dy, dx); arctan2(0, 0) = 0.
\* The bearing must have a rational cosine and sine (RatOf of the norm).
ArcTan2(dy, dx) ==
    IF dx = RZero /\ dy = RZero THEN <<RInt(1), RZero>>
    ELSE LET dist == RatOf(RealSqrt(RAdd(RSq(dx), RSq(dy))))
         IN  <<RDiv(dx, dist), RDiv(dy, dist)>>
Cos(angle) == angle[1]
Sin(angle) == angle[2]
\* The mutant of PlusPi: the "+ np.pi" of line 54 left out.
PlusNothing(angle) == angle
\* angle + np.pi
PlusPi(angle) == <<RNeg(angle[1]), RNeg(angle[2])>>
\* angle + np.pi/2
PlusHalfPi(angle) == <<RNeg(angle[2]), angle[1]>>

\* Whether arctan2(dy, dx) has a rational cosine and sine.
RationalBearing(dy, dx) ==
    LET n2 == RAdd(RSq(dx), RSq(dy)) IN IsSquare(n2[1]) /\ IsSquare(n2[2])

\* Lines 63-65: the raw displacement (desired position minus current position).
RawDisplacement(p, current_pos, target_pos) ==
    LET dx == RSub(target_pos[1], current_pos[1])
        dy == RSub(target_pos[2], current_pos[2])
        dz == IF p.altitude = None THEN RZero
              ELSE RSub(p.altitude, current_pos[3])
        angle_to_target == ArcTan2(dy, dx)
        offset_angle == PlusPi(angle_to_target)
        perpendicular_angle == PlusHalfPi(angle_to_target)
        desired_x == RAdd(RAdd(target_pos[1],
                               RMul(Cos(offset_angle), p.target_distance)),
                          RMul(Cos(perpendicular_angle), p.horizontal_offset))
        desired_y == RAdd(RAdd(target_pos[2],
                               RMul(Sin(offset_angle), p.target_distance)),
                          RMul(Sin(perpendicular_angle), p.horizontal_offset))
    IN  <<RSub(desired_x, current_pos[1]),
          RSub(desired_y, current_pos[2]),
          dz>>

\* Lines 69-72 with the clamp removed: the raw displacement is returned as is.
ScaleUnclamped(move, max_speed) ==
    <<RealOf(move[1]), RealOf(move[2]), RealOf(move[3])>>

\* Lines 69-72 scaling by max_speed / magnitude whatever the magnitude.
ScaleAlways(move, max_speed) ==
    LET move_magnitude ==
            RealSqrt(RAdd(RAdd(RSq(move[1]), RSq(move[2])), RSq(move[3])))
    IN  IF RealSign(move_magnitude) > 0
        THEN LET scale_factor == RealDiv(RealOf(max_speed), move_magnitude)
             IN  <<RealMul(RealOf(move[1]), scale_factor),
                   RealMul(RealOf(move[2]), scale_factor),
                   RealMul(RealOf(move[3]), scale_factor)>>
        ELSE <<RealOf(move[1]), RealOf(move[2]), RealOf(move[3])>>

\* Lines 67-72: scale to at most max_speed.
Scale(move, max_speed) ==
    LET move_magnitude ==
            RealSqrt(RAdd(RAdd(RSq(move[1]), RSq(move[2])), RSq(move[3])))
    IN  IF RealSign(move_magnitude) > 0
        THEN LET scale_factor ==
                     RealDiv(RealMin(RealOf(max_speed), move_magnitude),
                             move_magnitude)
             IN  <<RealMul(RealOf(move[1]), scale_factor),
                   RealMul(RealOf(move[2]), scale_factor),
                   RealMul(RealOf(move[3]), scale_factor)>>
        ELSE <<RealOf(move[1]), RealOf(move[2]), RealOf(move[3])>>

\* DistanceProfile.calculate_movement_vector
calculate_movement_vector(p, current_pos, target_pos) ==
    Scale(RawDisplacement(p, current_pos, target_pos), p.max_speed)

ZeroVector == <<RealOf(RZero), RealOf(RZero), RealOf(RZero)>>
\* |v|^2
Magnitude2(v) == RAdd(RAdd(RealSq(v[1]), RealSq(v[2])), RealSq(v[3]))

-----------------------------------------------------------------------------
(* Runs that apply calculate_movement_vector to drawn inputs.              *)

CalcDistances == {RZero, RInt(3), RInt(5)}
CalcAltitudes == {None, RInt(3)}
CalcOffsets == {RZero, RInt(3)}
CalcSpeeds == {Rat(3, 2), RInt(2), RInt(6)}
CalcProfiles ==
    {DistanceProfile(td, alt, ho, Rat(1, 2), ms) :
        td \in CalcDistances, alt \in CalcAltitudes,
        ho \in CalcOffsets, ms \in CalcSpeeds}
CalcCurrents ==
    {<<RZero, RZero, RZero>>, <<RInt(1), RInt(1), RInt(-3)>>,
     <<RZero, RZero, RInt(-7)>>}
CalcTargets ==
    {<<RInt(10), RZero, RZero>>, <<RZero, RZero, RZero>>,
     <<RInt(1), RInt(1), RInt(-3)>>, <<RInt(3), RInt(4), Rat(-17, 10)>>,
     <<RInt(1), RInt(-5), RZero>>, <<RInt(-4), RInt(1), RZero>>}
CalcInputs ==
    {i \in [profile : CalcProfiles, current : CalcCurrents,
            target : CalcTargets] :
        RationalBearing(RSub(i.target[2], i.current[2]),
                        RSub(i.target[1], i.current[1]))}

\* No call of DistanceProfile(...) and no frame is being looked at.
OtherPureIdle ==
    ctor_in = None /\ ctor_out = None /\ px_in = None /\ px_out = None

CalcIdle == calc_in = None /\ calc_out = None /\ OtherPureIdle

InitCalcRun == calc_in \in CalcInputs /\ calc_out = None /\ OtherPureIdle

Calculate ==
    /\ calc_in # None
    /\ calc_out = None
    /\ calc_out' = calculate_movement_vector(calc_in.profile,
                        calc_in.current, calc_in.target)
    /\ UNCHANGED <<calc_in, ctor_in, ctor_out, px_in, px_out, visionVars,
                   followVars, readVars, mainVars, strayVars>>

-----------------------------------------------------------------------------
(* Runs that call DistanceProfile(...) on drawn arguments.                 *)

CtorDistances == {RInt(3), RInt(5)}
CtorAltitudes == {None, RInt(3)}
CtorOffsets == {RZero, RInt(-1)}
CtorTolerances == {Rat(1, 2), RZero, Rat(-1, 2)}
CtorSpeeds == {RInt(2), Rat(3, 2), RZero, RInt(-2)}
CtorInputs ==
    [target_distance : CtorDistances, altitude : CtorAltitudes,
     horizontal_offset : CtorOffsets, distance_tolerance : CtorTolerances,
     max_speed : CtorSpeeds]

InitCtorRun ==
    /\ ctor_in \in CtorInputs
    /\ ctor_out = None
    /\ calc_in = None /\ calc_out = None /\ px_in = None /\ px_out = None

\* DistanceProfile.__init__, lines 23-29: no statement of it raises.
Construct ==
    /\ ctor_in # None
    /\ ctor_out = None
    /\ ctor_out' =
           [raised |-> FALSE,
            object |-> DistanceProfile(ctor_in.target_distance,
                           ctor_in.altitude, ctor_in.horizontal_offset,
                           ctor_in.distance_tolerance, ctor_in.max_speed)]
    /\ UNCHANGED <<ctor_in, calc_in, calc_out, px_in, px_out, visionVars,
                   followVars, readVars, mainVars, strayVars>>

-----------------------------------------------------------------------------
(* vision_tracker.py                                                       *)

\* detection_interval = 0.5 s, in clock ticks of a quarter second.
DetectionInterval == 2
FocalLength == 800
RealWidth == Rat(1, 2)
\* ned_z = -1.7
AssumedDown == Rat(-17, 10)
\* cv2.resize(frame, (min(width, 640), ...))
ResizeWidth == 640

\* time.time() when the program starts (seconds since 1970, so never below
\* detection_interval), and how far the clock runs.
Epoch == 3
Horizon == 3
MaxClock == Epoch + Horizon
\* The clock advances by at most this much across one camera read.
MaxStep == 2

\* (frame_width, frame_height) the camera may report.
FrameSizes == {<<640, 480>>, <<1280, 720>>}
\* What hog.detectMultiScale may return, in the resized frame.
DetectorOutputs ==
    {<<>>,
     <<<<0, 0, 50, 50>>, <<10, 10, 80, 80>>>>,
     <<<<270, 100, 100, 200>>>>,
     <<<<100, 100, 0, 50>>>>}
\* What tracker.update may return.
TrackerOutputs ==
    {[success |-> FALSE, bbox |-> None],
     [success |-> TRUE, bbox |-> <<280, 110, 80, 160>>],
     [success |-> TRUE, bbox |-> <<300, 120, 0, 150>>]}

Min(a, b) == IF a <= b THEN a ELSE b
Area(box) == box[3] * box[4]

\* The mutant of LargestBox: the last box of maximal area.
LastLargestBox(boxes) ==
    LET i == CHOOSE k \in 1..Len(boxes) :
                 /\ \A j \in 1..Len(boxes) : Area(boxes[j]) <= Area(boxes[k])
                 /\ \A j \in (k + 1)..Len(boxes) : Area(boxes[j]) < Area(boxes[k])
    IN  boxes[i]

\* max(boxes, key=lambda box: box[2] * box[3]): the first box of maximal area.
LargestBox(boxes) ==
    LET i == CHOOSE k \in 1..Len(boxes) :
                 /\ \A j \in 1..Len(boxes) : Area(boxes[j]) <= Area(boxes[k])
                 /\ \A j \in 1..(k - 1) : Area(boxes[j]) < Area(boxes[k])
    IN  boxes[i]

\* int(v * scale_factor), scale_factor = frame.shape[1] / frame_resized.shape[1]
Rescale(v, width) == (v * width) \div Min(width, ResizeWidth)

\* VisionTracker._detect_person on a frame for which the detector returns boxes.
DetectPerson(boxes, width) ==
    IF Len(boxes) = 0 THEN None
    ELSE LET largest_box == LargestBox(boxes)
         IN  <<Rescale(largest_box[1], width), Rescale(largest_box[2], width),
               Rescale(largest_box[3], width), Rescale(largest_box[4], width)>>

\* self.frame_center[0]
FrameCenterX(width) == width \div 2

\* The mutant of EstimatePosition: the box height taken for its width.
EstimatePositionByHeight(bbox, width) ==
    LET x == bbox[1]
        w == bbox[3]
        h == bbox[4]
        center_x == x + w \div 2
        distance_z == RDiv(RMul(RealWidth, RInt(FocalLength)), RInt(h))
        pixel_to_meter == RDiv(RealWidth, RInt(h))
        pos_x == RMul(RInt(center_x - FrameCenterX(width)), pixel_to_meter)
    IN  <<distance_z, RNeg(pos_x), AssumedDown>>

\* VisionTracker._update_target_position, lines 198-223, for a box with w # 0.
EstimatePosition(bbox, width) ==
    LET x == bbox[1]
        w == bbox[3]
        center_x == x + w \div 2
        distance_z == RDiv(RMul(RealWidth, RInt(FocalLength)), RInt(w))
        pixel_to_meter == RDiv(RealWidth, RInt(w))
        pos_x == RMul(RInt(center_x - FrameCenterX(width)), pixel_to_meter)
    IN  <<distance_z, RNeg(pos_x), AssumedDown>>

\* Line 207 divides by w: ZeroDivisionError for w = 0.
EstimatorRaises(bbox) == bbox[3] = 0

\* Runs that apply _detect_person and _update_target_position to one frame
\* (lines 123-132) for which the detector returns at least one box.
PxBoxes ==
    {<<0, 0, 50, 50>>, <<10, 10, 80, 80>>, <<100, 50, 100, 200>>,
     <<300, 120, 50, 100>>, <<20, 40, 90, 40>>, <<5, 5, 40, 90>>,
     <<7, 9, 45, 80>>, <<100, 100, 0, 50>>}
PxLists ==
    {<<b>> : b \in PxBoxes} \cup {<<b1, b2>> : b1, b2 \in PxBoxes}
        \cup {<<<<1, 1, 60, 60>>, <<20, 40, 90, 40>>, <<5, 5, 40, 90>>>>}
PxInputs == [boxes : PxLists, width : {size[1] : size \in FrameSizes}]

InitPxRun ==
    /\ px_in \in PxInputs
    /\ px_out = None
    /\ calc_in = None /\ calc_out = None /\ ctor_in = None /\ ctor_out = None

Perceive ==
    /\ px_in # None
    /\ px_out = None
    /\ LET bbox == DetectPerson(px_in.boxes, px_in.width)
       IN  px_out' =
               [largest_box |-> LargestBox(px_in.boxes),
                bbox |-> bbox,
                raised |-> EstimatorRaises(bbox),
                position |-> IF EstimatorRaises(bbox) THEN None
                             ELSE EstimatePosition(bbox, px_in.width)]
    /\ UNCHANGED <<px_in, calc_in, calc_out, ctor_in, ctor_out, visionVars,
                   followVars, readVars, mainVars, strayVars>>

\* (current_time - self.last_detection_time) >= self.detection_interval
RunDetection == (current_time - last_detection_time) >= DetectionInterval

\* What line 144 stores to force the next detection; the mutant keeps the timer.
KeepDetectionTime == last_detection_time
ForcedDetectionTime == 0

\* What tracker.init may do with the box: cv2 may reject a degenerate one.
TrackerInitOutcomes(bbox) == IF bbox[3] = 0 THEN {"ok", "raises"} ELSE {"ok"}

\* History: the triples the slot has held since the reader's call began.
Publish(position) ==
    IF rpc = "idle" THEN published ELSE published \cup {position}

\* History: how many frames the session has processed, counted 0, 1, many.
NextFrameCount == IF sessionFrames = 0 THEN 1 ELSE 2

\* History: one more iteration ended; counted while the stop event is set.
NextLap(laps, stop_event) ==
    IF ~stop_event THEN 0 ELSE IF laps = 0 THEN 1 ELSE 2

VisionInit ==
    /\ cap = "none"
    /\ frame_width = 0
    /\ frame_height = 0
    /\ target_position = None
    /\ target_bbox = None
    /\ last_detection_time = 0
    /\ is_running = FALSE
    /\ v_stop_event = FALSE
    /\ tracker = "created"
    /\ vpc = "none"
    /\ tracking_initialized = FALSE
    /\ current_time = 0
    /\ vmain = "idle"
    /\ now = Epoch
    /\ lastCycle = "none"
    /\ prevCycle = "none"
    /\ estimator_bbox = None
    /\ sessionFrames = 0
    /\ lastSuccess = 0
    /\ published = {}
    /\ v_laps = 0

\* VisionTracker.start, the camera opening.
VStart ==
    /\ vmain = "idle"
    /\ ~is_running
    /\ \E size \in FrameSizes :
          /\ cap' = "open"
          /\ frame_width' = size[1]
          /\ frame_height' = size[2]
    /\ is_running' = TRUE
    /\ v_stop_event' = FALSE
    /\ vpc' = "begin"
    /\ sessionFrames' = 0
    /\ v_laps' = 0
    /\ UNCHANGED <<target_position, target_bbox, last_detection_time, tracker,
                   tracking_initialized, current_time, vmain, now, lastCycle, prevCycle,
                   estimator_bbox, lastSuccess, published,
                   calcVars, followVars, readVars, mainVars, strayVars>>

\* VisionTracker.start, the camera failing to open: RuntimeError at line 66.
VStartFails ==
    /\ vmain = "idle"
    /\ ~is_running
    /\ cap' = "unopened"
    /\ UNCHANGED <<v_laps, frame_width, frame_height, target_position, target_bbox,
                   last_detection_time, is_running, v_stop_event, tracker, vpc,
                   tracking_initialized, current_time, vmain, now, lastCycle, prevCycle,
                   estimator_bbox, sessionFrames, lastSuccess, published,
                   calcVars, followVars, readVars, mainVars, strayVars>>

\* VisionTracker.stop up to the join: the stop signal is set.
VStopSignal ==
    /\ vmain = "idle"
    /\ is_running
    /\ v_stop_event' = TRUE
    /\ vmain' = "join"
    /\ v_laps' = 0
    /\ UNCHANGED <<cap, frame_width, frame_height, target_position, target_bbox,
                   last_detection_time, is_running, tracker, vpc,
                   tracking_initialized, current_time, now, lastCycle, prevCycle,
                   estimator_bbox, sessionFrames, lastSuccess, published,
                   calcVars, followVars, readVars, mainVars, strayVars>>

\* VisionTracker.stop from the join on.  The join returns once the loop has
\* ended: the loop's external calls return within the 5 s timeout here.
VStopJoin ==
    /\ vmain = "join"
    /\ vpc \in {"done", "crashed"}
    /\ vpc' = "none"
    /\ cap' = "none"
    /\ is_running' = FALSE
    /\ vmain' = "idle"
    /\ UNCHANGED <<v_laps, frame_width, frame_height, target_position, target_bbox,
                   last_detection_time, v_stop_event, tracker,
                   tracking_initialized, current_time, now, lastCycle, prevCycle,
                   estimator_bbox, sessionFrames, lastSuccess, published,
                   calcVars, followVars, readVars, mainVars, strayVars>>

\* _tracking_loop, lines 106-107.
VLoopBegin ==
    /\ vpc = "begin"
    /\ tracking_initialized' = FALSE
    /\ vpc' = "check"
    /\ UNCHANGED <<v_laps, cap, frame_width, frame_height, target_position, target_bbox,
                   last_detection_time, is_running, v_stop_event, tracker,
                   current_time, vmain, now, lastCycle, prevCycle, estimator_bbox,
                   sessionFrames, lastSuccess, published,
                   calcVars, followVars, readVars, mainVars, strayVars>>

\* while not self.stop_event.is_set()
VLoopCheck ==
    /\ vpc = "check"
    /\ vpc' = IF v_stop_event THEN "done" ELSE "read"
    /\ UNCHANGED <<v_laps, cap, frame_width, frame_height, target_position, target_bbox,
                   last_detection_time, is_running, v_stop_event, tracker,
                   tracking_initialized, current_time, vmain, now, lastCycle, prevCycle,
                   estimator_bbox, sessionFrames, lastSuccess, published,
                   calcVars, followVars, readVars, mainVars, strayVars>>

\* The mutant of VReadFails: a failed read is taken for a lost target.
VReadFailsDropsTarget ==
    /\ vpc = "read"
    /\ \E t \in now..Min(now + MaxStep, MaxClock) : now' = t
    /\ target_bbox' = None
    /\ vpc' = "check"
    /\ v_laps' = NextLap(v_laps, v_stop_event)
    /\ UNCHANGED <<cap, frame_width, frame_height, target_position,
                   last_detection_time, is_running, v_stop_event, tracker,
                   tracking_initialized, current_time, vmain, lastCycle, prevCycle,
                   estimator_bbox, sessionFrames, lastSuccess, published,
                   calcVars, followVars, readVars, mainVars, strayVars>>

\* self.cap.read() failing: logged, sleep, continue.
VReadFails ==
    /\ vpc = "read"
    /\ \E t \in now..Min(now + MaxStep, MaxClock) : now' = t
    /\ vpc' = "check"
    /\ v_laps' = NextLap(v_laps, v_stop_event)
    /\ UNCHANGED <<cap, frame_width, frame_height, target_position, target_bbox,
                   last_detection_time, is_running, v_stop_event, tracker,
                   tracking_initialized, current_time, vmain, lastCycle, prevCycle,
                   estimator_bbox, sessionFrames, lastSuccess, published,
                   calcVars, followVars, readVars, mainVars, strayVars>>

\* self.cap.read() returning a frame, and current_time = time.time().
VRead ==
    /\ vpc = "read"
    /\ \E t \in now..Min(now + MaxStep, MaxClock) :
          /\ now' = t
          /\ current_time' = t
    /\ vpc' = "frame"
    /\ UNCHANGED <<v_laps, cap, frame_width, frame_height, target_position, target_bbox,
                   last_detection_time, is_running, v_stop_event, tracker,
                   tracking_initialized, vmain, lastCycle, prevCycle, estimator_bbox,
                   sessionFrames, lastSuccess, published,
                   calcVars, followVars, readVars, mainVars, strayVars>>

\* The mutant of VDetectNone: the empty detection also clears target_position.
VDetectNoneClears ==
    /\ vpc = "frame"
    /\ RunDetection \/ target_bbox = None
    /\ \E boxes \in DetectorOutputs :
          /\ DetectPerson(boxes, frame_width) = None
          /\ target_bbox' = None
    /\ target_position' = None
    /\ published' = Publish(None)
    /\ lastCycle' = "detect_none"
    /\ prevCycle' = lastCycle
    /\ vpc' = "check"
    /\ sessionFrames' = NextFrameCount
    /\ v_laps' = NextLap(v_laps, v_stop_event)
    /\ UNCHANGED <<cap, frame_width, frame_height,
                   last_detection_time, is_running, v_stop_event, tracker,
                   tracking_initialized, current_time, vmain, now,
                   estimator_bbox, lastSuccess,
                   calcVars, followVars, readVars, mainVars, strayVars>>

\* Lines 121-125 with the detector finding nobody.
VDetectNone ==
    /\ vpc = "frame"
    /\ RunDetection \/ target_bbox = None
    /\ \E boxes \in DetectorOutputs :
          /\ DetectPerson(boxes, frame_width) = None
          /\ target_bbox' = None
    /\ lastCycle' = "detect_none"
    /\ prevCycle' = lastCycle
    /\ vpc' = "check"
    /\ sessionFrames' = NextFrameCount
    /\ v_laps' = NextLap(v_laps, v_stop_event)
    /\ UNCHANGED <<cap, frame_width, frame_height, target_position,
                   last_detection_time, is_running, v_stop_event, tracker,
                   tracking_initialized, current_time, vmain, now,
                   estimator_bbox, lastSuccess, published,
                   calcVars, followVars, readVars, mainVars, strayVars>>

\* Lines 121-133 with the detector finding a box.
VDetectBox ==
    /\ vpc = "frame"
    /\ RunDetection \/ target_bbox = None
    /\ \E boxes \in DetectorOutputs :
          LET bbox == DetectPerson(boxes, frame_width) IN
          /\ bbox # None
          /\ target_bbox' = bbox
          /\ \E init \in TrackerInitOutcomes(bbox) :
                IF init = "raises"
                THEN /\ tracker' = "created"
                     /\ vpc' = "crashed"
                     /\ UNCHANGED <<tracking_initialized, target_position,
                                    last_detection_time, estimator_bbox,
                                    lastSuccess, published>>
                ELSE /\ tracker' = "initialised"
                     /\ tracking_initialized' = TRUE
                     /\ estimator_bbox' = bbox
                     /\ IF EstimatorRaises(bbox)
                        THEN /\ vpc' = "crashed"
                             /\ UNCHANGED <<target_position, last_detection_time,
                                            lastSuccess, published>>
                        ELSE /\ target_position' = EstimatePosition(bbox, frame_width)
                             /\ published' = Publish(target_position')
                             /\ last_detection_time' = current_time
                             /\ lastSuccess' = current_time
                             /\ vpc' = "check"
    /\ lastCycle' = "detect_box"
    /\ prevCycle' = lastCycle
    /\ sessionFrames' = NextFrameCount
    /\ v_laps' = NextLap(v_laps, v_stop_event)
    /\ UNCHANGED <<cap, frame_width, frame_height, is_running, v_stop_event,
                   current_time, vmain, now,
                   calcVars, followVars, readVars, mainVars, strayVars>>

\* Lines 134-141: tracker.update succeeds.
VTrackOk ==
    /\ vpc = "frame"
    /\ ~(RunDetection \/ target_bbox = None)
    /\ tracking_initialized
    /\ \E out \in TrackerOutputs :
          /\ out.success
          /\ target_bbox' = out.bbox
          /\ estimator_bbox' = out.bbox
          /\ IF EstimatorRaises(out.bbox)
             THEN /\ vpc' = "crashed"
                  /\ UNCHANGED <<target_position, published>>
             ELSE /\ target_position' = EstimatePosition(out.bbox, frame_width)
                  /\ published' = Publish(target_position')
                  /\ vpc' = "check"
    /\ lastCycle' = "track_ok"
    /\ prevCycle' = lastCycle
    /\ sessionFrames' = NextFrameCount
    /\ v_laps' = NextLap(v_laps, v_stop_event)
    /\ UNCHANGED <<cap, frame_width, frame_height, last_detection_time,
                   is_running, v_stop_event, tracker, tracking_initialized,
                   current_time, vmain, now, lastSuccess,
                   calcVars, followVars, readVars, mainVars, strayVars>>

\* Lines 134-144: tracker.update fails.
VTrackFails ==
    /\ vpc = "frame"
    /\ ~(RunDetection \/ target_bbox = None)
    /\ tracking_initialized
    /\ \E out \in TrackerOutputs : ~out.success
    /\ last_detection_time' = ForcedDetectionTime
    /\ lastCycle' = "track_fail"
    /\ prevCycle' = lastCycle
    /\ vpc' = "check"
    /\ sessionFrames' = NextFrameCount
    /\ v_laps' = NextLap(v_laps, v_stop_event)
    /\ UNCHANGED <<cap, frame_width, frame_height, target_position, target_bbox,
                   is_running, v_stop_event, tracker, tracking_initialized,
                   current_time, vmain, now, estimator_bbox, lastSuccess,
                   published, calcVars, followVars, readVars, mainVars, strayVars>>

\* Neither branch of lines 121 and 134: the frame is dropped.
VSkip ==
    /\ vpc = "frame"
    /\ ~(RunDetection \/ target_bbox = None)
    /\ ~tracking_initialized
    /\ lastCycle' = "skip"
    /\ prevCycle' = lastCycle
    /\ vpc' = "check"
    /\ sessionFrames' = NextFrameCount
    /\ v_laps' = NextLap(v_laps, v_stop_event)
    /\ UNCHANGED <<cap, frame_width, frame_height, target_position, target_bbox,
                   last_detection_time, is_running, v_stop_event, tracker,
                   tracking_initialized, current_time, vmain, now,
                   estimator_bbox, lastSuccess, published,
                   calcVars, followVars, readVars, mainVars, strayVars>>

VisionNext ==
    \/ VStart
    \/ VStartFails
    \/ VStopSignal
    \/ VStopJoin
    \/ VLoopBegin
    \/ VLoopCheck
    \/ VReadFails
    \/ VRead
    \/ VDetectNone
    \/ VDetectBox
    \/ VTrackOk
    \/ VTrackFails
    \/ VSkip

-----------------------------------------------------------------------------
(* A thread other than the vision loop reading the target slot, as the     *)
(* follow loop (line 147 of follow_controller.py) and the status command   *)
(* of main.py (lines 137-138) do.                                          *)

Seen(failed, value) == [failed |-> failed, value |-> value]

\* VisionTracker.get_target_position: one read of the attribute.
RGetPosition ==
    /\ rpc = "idle"
    /\ r_seen' = Seen(FALSE, target_position)
    /\ published' = {target_position}
    /\ UNCHANGED <<v_laps, rpc, cap, frame_width, frame_height, target_position,
                   target_bbox, last_detection_time, is_running, v_stop_event,
                   tracker, vpc, tracking_initialized, current_time, vmain,
                   now, lastCycle, prevCycle, estimator_bbox, sessionFrames,
                   lastSuccess, calcVars, followVars, mainVars, strayVars>>

\* VisionTracker.get_target_distance, lines 232-233: the absent check.
RDistanceCheck ==
    /\ rpc = "idle"
    /\ published' = {target_position}
    /\ IF target_position = None
       THEN /\ r_seen' = Seen(FALSE, None)
            /\ rpc' = "idle"
       ELSE /\ r_seen' = None
            /\ rpc' = "unpack"
    /\ UNCHANGED <<v_laps, cap, frame_width, frame_height, target_position,
                   target_bbox, last_detection_time, is_running, v_stop_event,
                   tracker, vpc, tracking_initialized, current_time, vmain,
                   now, lastCycle, prevCycle, estimator_bbox, sessionFrames,
                   lastSuccess, calcVars, followVars, mainVars, strayVars>>

\* VisionTracker.get_target_distance, line 236: the attribute is read again
\* and unpacked; unpacking None raises TypeError.
RDistanceUnpack ==
    /\ rpc = "unpack"
    /\ r_seen' = IF target_position = None THEN Seen(TRUE, None)
                 ELSE Seen(FALSE, target_position)
    /\ rpc' = "idle"
    /\ UNCHANGED <<v_laps, cap, frame_width, frame_height, target_position,
                   target_bbox, last_detection_time, is_running, v_stop_event,
                   tracker, vpc, tracking_initialized, current_time, vmain,
                   now, lastCycle, prevCycle, estimator_bbox, sessionFrames,
                   lastSuccess, published, calcVars, followVars, mainVars, strayVars>>

ReaderNext ==
    \/ RGetPosition
    \/ RDistanceCheck
    \/ RDistanceUnpack

-----------------------------------------------------------------------------
(* vision_tracker.py with the join of line 94 timing out.  stop() then     *)
(* goes on while the loop thread is still inside an external call, and     *)
(* drops its only reference to the thread at line 95.  From then on two    *)
(* _tracking_loop threads can exist: vpc, tracking_initialized and         *)
(* current_time are those of the thread that runs next, v_parked holds the *)
(* other one's, and thread says which of the two is parked: "handle", the  *)
(* thread self.tracker_thread names, or "orphan", the one it dropped.      *)

\* A thread at this position has not ended.
Live(pc) == pc \notin {"none", "done", "crashed"}

\* Where _tracking_loop is inside cap.read(), the detector or the tracker.
VSlowPositions == {"read", "frame"}

VContext(pc, initialized, time, thread) ==
    [pc |-> pc, tracking_initialized |-> initialized, current_time |-> time,
     thread |-> thread]

\* The steps of start() and stop() are taken by their caller, and vpc is
\* then the position of the thread self.tracker_thread names.
VHandleRuns ==
    IF v_parked = None THEN TRUE ELSE v_parked.thread = "orphan"

\* Lines 94-102 with the join timing out after 5 s: the thread is still in
\* an external call; the reference is dropped, the camera released.
VStopJoinTimeout ==
    /\ vmain = "join"
    /\ v_parked = None
    /\ vpc \in VSlowPositions
    /\ v_parked' = VContext(vpc, tracking_initialized, current_time, "orphan")
    /\ vpc' = "none"
    /\ cap' = "none"
    /\ is_running' = FALSE
    /\ vmain' = "idle"
    /\ UNCHANGED <<frame_width, frame_height, target_position, target_bbox,
                   last_detection_time, v_stop_event, tracker,
                   tracking_initialized, current_time, now, lastCycle, prevCycle,
                   estimator_bbox, sessionFrames, lastSuccess, published,
                   v_laps, f_parked, cpc,
                   calcVars, followVars, readVars, mainVars>>

\* The scheduler: the other _tracking_loop thread runs next.
VSwitch ==
    /\ v_parked # None
    /\ vpc' = v_parked.pc
    /\ tracking_initialized' = v_parked.tracking_initialized
    /\ current_time' = v_parked.current_time
    /\ v_parked' = VContext(vpc, tracking_initialized, current_time,
                            IF v_parked.thread = "orphan" THEN "handle"
                            ELSE "orphan")
    /\ UNCHANGED <<cap, frame_width, frame_height, target_position, target_bbox,
                   last_detection_time, is_running, v_stop_event, tracker,
                   vmain, now, lastCycle, prevCycle, estimator_bbox,
                   sessionFrames, lastSuccess, published, v_laps, f_parked, cpc,
                   calcVars, followVars, readVars, mainVars>>

\* A dropped thread that has ended is gone.
VReap ==
    /\ v_parked # None
    /\ v_parked.thread = "orphan"
    /\ ~Live(v_parked.pc)
    /\ v_parked' = None
    /\ UNCHANGED <<f_parked, cpc, calcVars, visionVars, followVars, readVars,
                   mainVars>>

\* Line 111 after stop() has set self.cap to None: AttributeError, the
\* thread dies.  (A thread already inside cap.read() when the camera was
\* released gets whatever the capture then returns: VRead or VReadFails.)
VReadNoCamera ==
    /\ vpc = "read"
    /\ cap = "none"
    /\ vpc' = "crashed"
    /\ UNCHANGED <<cap, frame_width, frame_height, target_position, target_bbox,
                   last_detection_time, is_running, v_stop_event, tracker,
                   tracking_initialized, current_time, vmain, now, lastCycle,
                   prevCycle, estimator_bbox, sessionFrames, lastSuccess,
                   published, v_laps, calcVars, followVars, readVars, mainVars,
                   strayVars>>

\* capture_frame, lines 241-242: with an opened capture the caller goes on
\* to read from it (otherwise it returns None at once).
CaptureCheck ==
    /\ cpc = "idle"
    /\ cap = "open"
    /\ cpc' = "read"
    /\ UNCHANGED <<v_parked, f_parked, calcVars, visionVars, followVars,
                   readVars, mainVars>>

\* capture_frame, lines 244-257: self.cap.read() and the drawing.
CaptureRead ==
    /\ cpc = "read"
    /\ cpc' = "idle"
    /\ UNCHANGED <<v_parked, f_parked, calcVars, visionVars, followVars,
                   readVars, mainVars>>

\* The clock stands still: what these runs are about does not depend on
\* how long a frame takes.
ClockStands == now' = now

\* The steps of a _tracking_loop thread, the clock standing.
VisionStrayLoop ==
    \/ VLoopBegin
    \/ VLoopCheck
    \/ VReadFails /\ ClockStands
    \/ VRead /\ ClockStands
    \/ VReadNoCamera
    \/ VDetectNone
    \/ VDetectBox
    \/ VTrackOk
    \/ VTrackFails
    \/ VSkip

\* start() and stop() with both outcomes of the join, and the scheduler.
VisionStrayCalls ==
    \/ VHandleRuns /\ VStopSignal
    \/ VHandleRuns /\ VStopJoin
    \/ VHandleRuns /\ VStopJoinTimeout
    \/ VSwitch
    \/ VReap

\* VisionTracker with callers of capture_frame; start() is called only
\* when no dropped thread is left.
CameraNext ==
    \/ v_parked = None /\ VStart
    \/ v_parked = None /\ VStartFails
    \/ VisionStrayCalls
    \/ VisionStrayLoop
    \/ CaptureCheck
    \/ CaptureRead

\* VisionTracker with start() called at any time, a dropped thread or not.
VisionStrayNext ==
    \/ VHandleRuns /\ VStart
    \/ VHandleRuns /\ VStartFails
    \/ VisionStrayCalls
    \/ VisionStrayLoop

-----------------------------------------------------------------------------
(* follow_controller.py                                                    *)

\* What target_tracker.get_target_position() may return.
TrackerPositions ==
    {None,
     <<RInt(5), RZero, AssumedDown>>,
     <<RInt(4), RInt(3), AssumedDown>>,
     <<RInt(12), RZero, AssumedDown>>}
\* vehicle.location.global_relative_frame.alt
VehicleAltitudes == {RInt(3), RInt(10)}
\* Distances given to FollowController(...) and change_tracking_distance.
RequestedDistances ==
    {RInt(3), Rat(301, 100), RInt(5), RInt(10), Rat(1001, 100)}
\* main.py: --distance defaults to 5.0
DefaultDistance == RInt(5)
\* Whether send_velocity_command returns (TRUE) or raises (FALSE).
SendOutcomes == BOOLEAN

\* The mutant of HoverCommand: the vector of the last tick is sent again.
StaleCommand == IF movement_vector = None THEN ZeroVector ELSE movement_vector
\* The command of lines 153 and 174.
HoverCommand == ZeroVector

Command(v, ok) == [v |-> v, ok |-> ok]

FollowInitWith(distances) ==
    /\ is_following = FALSE
    /\ f_stop_event = FALSE
    /\ \E tracking_distance \in distances :
          /\ requested = tracking_distance
          /\ tracking_profile = get_profile(tracking_distance)
    /\ fpc = "none"
    /\ f_target = None
    /\ f_self = None
    /\ tickActive = {}
    /\ f_laps = 0
    /\ f_current = None
    /\ movement_vector = None
    /\ fmain = "idle"
    /\ tickCmds = <<>>
    /\ tickProfile = None
    /\ afterStop = <<>>

FollowInit == FollowInitWith(RequestedDistances)

\* Where the follow_loop thread is inside a tick (lines 147-165).
TickPositions == {"hover", "position", "calc", "vector", "send"}

\* FollowController.change_tracking_distance
ChangeTrackingDistance ==
    /\ fmain = "idle"
    /\ \E new_distance \in RequestedDistances :
          /\ tracking_profile' = get_profile(new_distance)
          /\ requested' = new_distance
    /\ tickActive' = IF fpc \in TickPositions
                      THEN tickActive \cup {tracking_profile'}
                      ELSE tickActive
    /\ UNCHANGED <<f_laps, is_following, f_stop_event, fpc, f_target, f_current,
                   movement_vector, fmain, tickCmds, tickProfile, afterStop,
                   f_self, calcVars, visionVars, readVars, mainVars, strayVars>>

\* FollowController.start_following, lines 134-181.
FStart ==
    /\ fmain = "idle"
    /\ ~is_following
    /\ is_following' = TRUE
    /\ f_stop_event' = FALSE
    /\ fpc' = "check"
    /\ tickCmds' = <<>>
    /\ tickProfile' = None
    /\ afterStop' = <<>>
    /\ f_target' = None
    /\ f_current' = None
    /\ movement_vector' = None
    /\ f_self' = None
    /\ tickActive' = {}
    /\ f_laps' = 0
    /\ UNCHANGED <<tracking_profile, fmain, requested, calcVars, visionVars, readVars, mainVars, strayVars>>

\* FollowController.stop_following up to the join.
FStopSignal ==
    /\ fmain = "idle"
    /\ is_following
    /\ f_stop_event' = TRUE
    /\ fmain' = "join"
    /\ f_laps' = 0
    /\ UNCHANGED <<is_following, tracking_profile, fpc, f_target, f_current,
                   movement_vector, tickCmds, tickProfile, afterStop,
                   f_self, tickActive, requested, calcVars, visionVars, readVars, mainVars, strayVars>>

\* FollowController.stop_following from the join on.  The join returns once
\* the loop has ended: the sink returns within the 5 s timeout here.
FStopJoin ==
    /\ fmain = "join"
    /\ fpc = "done"
    /\ fpc' = "none"
    /\ is_following' = FALSE
    /\ fmain' = "idle"
    /\ UNCHANGED <<f_laps, f_stop_event, tracking_profile, f_target, f_current,
                   movement_vector, tickCmds, tickProfile, afterStop,
                   f_self, tickActive, requested, calcVars, visionVars, readVars, mainVars, strayVars>>

\* The mutant of FLoopCheck: the loop ends without the line 174 command.
FLoopCheckNoFinal ==
    /\ fpc = "check"
    /\ fpc' = IF f_stop_event THEN "done" ELSE "get"
    /\ UNCHANGED <<f_laps, is_following, f_stop_event, tracking_profile, f_target,
                   f_current, movement_vector, fmain, tickCmds, tickProfile,
                   afterStop, f_self, tickActive, requested, calcVars, visionVars, readVars, mainVars, strayVars>>

\* while not self.stop_event.is_set()
FLoopCheck ==
    /\ fpc = "check"
    /\ fpc' = IF f_stop_event THEN "final" ELSE "get"
    /\ UNCHANGED <<f_laps, is_following, f_stop_event, tracking_profile, f_target,
                   f_current, movement_vector, fmain, tickCmds, tickProfile,
                   afterStop, f_self, tickActive, requested, calcVars, visionVars, readVars, mainVars, strayVars>>

\* What line 147 may read.  Under main.py the tracker is the VisionTracker:
\* the reading is None exactly when its slot is, and a position otherwise,
\* for which one of the TrackerPositions stands (calculate_movement_vector
\* is computed exactly only for bearings with a rational sine and cosine).
TargetReadings ==
    IF mainpc = "none" THEN TrackerPositions
    ELSE IF target_position = None THEN {None}
    ELSE {<<RInt(4), RInt(3), AssumedDown>>}

\* target_position = target_tracker.get_target_position(): a tick begins.
FGetTarget ==
    /\ fpc = "get"
    /\ \E pos \in TargetReadings :
          /\ f_target' = pos
          /\ fpc' = IF pos = None THEN "hover" ELSE "position"
    /\ tickCmds' = <<>>
    /\ tickProfile' = None
    /\ tickActive' = {tracking_profile}
    /\ UNCHANGED <<f_laps, is_following, f_stop_event, tracking_profile, f_current,
                   movement_vector, fmain, afterStop, f_self, requested, calcVars, visionVars, readVars, mainVars, strayVars>>

\* The mutant of FHover: with no target the loop asks the tracker again at
\* once, without going back to the while condition.
FHoverRetries ==
    /\ fpc = "hover"
    /\ f_target = None
    /\ \E ok \in SendOutcomes :
          tickCmds' = Append(tickCmds, Command(HoverCommand, ok))
    /\ fpc' = "get"
    /\ f_laps' = NextLap(f_laps, f_stop_event)
    /\ UNCHANGED <<is_following, f_stop_event, tracking_profile, f_target,
                   f_current, movement_vector, fmain, tickProfile, afterStop,
                   f_self, tickActive, requested, calcVars, visionVars,
                   readVars, mainVars, strayVars>>

\* Lines 150-155: no target, the hover command, sleep, continue.  A raise of
\* the sink is caught at line 167 and the loop sleeps at line 171.
FHover ==
    /\ fpc = "hover"
    /\ f_target = None
    /\ \E ok \in SendOutcomes :
          tickCmds' = Append(tickCmds, Command(HoverCommand, ok))
    /\ fpc' = "sleep"
    /\ UNCHANGED <<f_laps, is_following, f_stop_event, tracking_profile, f_target,
                   f_current, movement_vector, fmain, tickProfile, afterStop,
                   f_self, tickActive, requested, calcVars, visionVars, readVars, mainVars, strayVars>>

\* current_position = self.get_current_position()
FGetPosition ==
    /\ fpc = "position"
    /\ \E alt \in VehicleAltitudes :
          f_current' = <<RZero, RZero, RNeg(alt)>>
    /\ fpc' = "calc"
    /\ UNCHANGED <<f_laps, is_following, f_stop_event, tracking_profile, f_target,
                   movement_vector, fmain, tickCmds, tickProfile, afterStop,
                   f_self, tickActive, requested, calcVars, visionVars, readVars, mainVars, strayVars>>

\* Line 161, self.tracking_profile: the attribute is read once and the method
\* is bound to the object it held.
FBindProfile ==
    /\ fpc = "calc"
    /\ f_self' = tracking_profile
    /\ fpc' = "vector"
    /\ UNCHANGED <<f_laps, is_following, f_stop_event, tracking_profile, f_target,
                   f_current, movement_vector, fmain, tickCmds, tickProfile,
                   afterStop, tickActive, requested, calcVars, visionVars,
                   readVars, mainVars, strayVars>>

\* The mutant of BoundProfile: max_speed is read through
\* self.tracking_profile again when the vector is scaled.
RereadProfile ==
    [f_self EXCEPT !.max_speed = tracking_profile.max_speed]
\* The object whose fields the body of calculate_movement_vector reads: self.
BoundProfile == f_self

\* Lines 161-162: the body of calculate_movement_vector runs on the bound
\* object, whose fields nothing assigns after __init__.
FCalc ==
    /\ fpc = "vector"
    /\ movement_vector' =
           calculate_movement_vector(BoundProfile, f_current, f_target)
    /\ tickProfile' = BoundProfile
    /\ fpc' = "send"
    /\ UNCHANGED <<f_laps, is_following, f_stop_event, tracking_profile, f_target,
                   f_current, fmain, tickCmds, afterStop, f_self, tickActive, requested, calcVars, visionVars, readVars, mainVars, strayVars>>

\* The mutant of FSend: no try/except, a raise of the sink ends the thread.
FSendUncaught ==
    /\ fpc = "send"
    /\ \E ok \in SendOutcomes :
          /\ tickCmds' = Append(tickCmds, Command(movement_vector, ok))
          /\ fpc' = IF ok THEN "sleep" ELSE "done"
    /\ UNCHANGED <<f_laps, is_following, f_stop_event, tracking_profile, f_target,
                   f_current, movement_vector, fmain, tickProfile, afterStop,
                   f_self, tickActive, requested, calcVars, visionVars, readVars, mainVars, strayVars>>

\* Lines 165-171: the command is sent; a raise of the sink is caught and
\* logged; the loop sleeps and goes round.
FSend ==
    /\ fpc = "send"
    /\ \E ok \in SendOutcomes :
          tickCmds' = Append(tickCmds, Command(movement_vector, ok))
    /\ fpc' = "sleep"
    /\ UNCHANGED <<f_laps, is_following, f_stop_event, tracking_profile, f_target,
                   f_current, movement_vector, fmain, tickProfile, afterStop,
                   f_self, tickActive, requested, calcVars, visionVars, readVars, mainVars, strayVars>>

\* time.sleep(0.1) at line 154 or 171, then the loop goes round.
FSleep ==
    /\ fpc = "sleep"
    /\ fpc' = "check"
    /\ f_laps' = NextLap(f_laps, f_stop_event)
    /\ UNCHANGED <<is_following, f_stop_event, tracking_profile, f_target,
                   f_current, movement_vector, fmain, tickCmds, tickProfile,
                   afterStop, f_self, tickActive, requested, calcVars, visionVars, readVars, mainVars, strayVars>>

\* Lines 173-175: the last command, outside the try; the thread ends.
FFinalSend ==
    /\ fpc = "final"
    /\ \E ok \in SendOutcomes :
          afterStop' = Append(afterStop, Command(HoverCommand, ok))
    /\ fpc' = "done"
    /\ UNCHANGED <<f_laps, is_following, f_stop_event, tracking_profile, f_target,
                   f_current, movement_vector, fmain, tickCmds, tickProfile,
                   f_self, tickActive, requested, calcVars, visionVars, readVars, mainVars, strayVars>>

FollowNext ==
    \/ ChangeTrackingDistance
    \/ FStart
    \/ FStopSignal
    \/ FStopJoin
    \/ FLoopCheck
    \/ FGetTarget
    \/ FHover
    \/ FGetPosition
    \/ FBindProfile
    \/ FCalc
    \/ FSend
    \/ FSleep
    \/ FFinalSend

\* The steps of the _tracking_loop thread.
VisionLoopNext ==
    \/ VLoopBegin
    \/ VLoopCheck
    \/ VReadFails
    \/ VRead
    \/ VDetectNone
    \/ VDetectBox
    \/ VTrackOk
    \/ VTrackFails

\* The steps of the follow_loop thread.
FollowLoopNext ==
    \/ FLoopCheck
    \/ FGetTarget
    \/ FHover
    \/ FGetPosition
    \/ FBindProfile
    \/ FCalc
    \/ FSend
    \/ FSleep
    \/ FFinalSend

-----------------------------------------------------------------------------
(* follow_controller.py with the join of line 193 timing out.  As for the  *)
(* vision loop: fpc, f_target, f_self, f_current and movement_vector are   *)
(* those of the follow_loop thread that runs next, f_parked holds the      *)
(* other one's.                                                            *)

\* Where follow_loop is inside a call on the vehicle.
FSlowPositions == {"hover", "position", "send", "final"}

FContext(pc, target, bound, current, vector, thread) ==
    [pc |-> pc, f_target |-> target, f_self |-> bound, f_current |-> current,
     movement_vector |-> vector, thread |-> thread]

\* fpc is the position of the thread self.tracking_thread names.
FHandleRuns ==
    IF f_parked = None THEN TRUE ELSE f_parked.thread = "orphan"

\* Lines 193-197 with the join timing out after 5 s: the thread is still in
\* a call on the vehicle; the reference is dropped, is_following cleared.
FStopJoinTimeout ==
    /\ fmain = "join"
    /\ f_parked = None
    /\ fpc \in FSlowPositions
    /\ f_parked' = FContext(fpc, f_target, f_self, f_current, movement_vector,
                            "orphan")
    /\ fpc' = "none"
    /\ is_following' = FALSE
    /\ fmain' = "idle"
    /\ UNCHANGED <<f_stop_event, tracking_profile, f_target, f_current,
                   movement_vector, tickCmds, tickProfile, afterStop,
                   f_self, tickActive, requested, f_laps, v_parked, cpc,
                   calcVars, visionVars, readVars, mainVars>>

\* The scheduler: the other follow_loop thread runs next.
FSwitch ==
    /\ f_parked # None
    /\ fpc' = f_parked.pc
    /\ f_target' = f_parked.f_target
    /\ f_self' = f_parked.f_self
    /\ f_current' = f_parked.f_current
    /\ movement_vector' = f_parked.movement_vector
    /\ f_parked' = FContext(fpc, f_target, f_self, f_current, movement_vector,
                            IF f_parked.thread = "orphan" THEN "handle"
                            ELSE "orphan")
    /\ UNCHANGED <<is_following, f_stop_event, tracking_profile, fmain,
                   tickCmds, tickProfile, afterStop, tickActive, requested,
                   f_laps, v_parked, cpc,
                   calcVars, visionVars, readVars, mainVars>>

\* A dropped thread that has ended is gone.
FReap ==
    /\ f_parked # None
    /\ f_parked.thread = "orphan"
    /\ ~Live(f_parked.pc)
    /\ f_parked' = None
    /\ UNCHANGED <<v_parked, cpc, calcVars, visionVars, followVars, readVars,
                   mainVars>>

\* FollowController.disconnect, called as shutdown() calls it (main.py lines
\* 174-180): with is_following False.
FDisconnect ==
    /\ fmain = "idle"
    /\ ~is_following
    /\ vehicle = "connected"
    /\ vehicle' = "closed"
    /\ UNCHANGED <<mainpc, calcVars, visionVars, followVars, readVars,
                   strayVars>>

\* FollowController as main.py uses it, with both outcomes of the join;
\* nothing is started on a closed vehicle.
FollowStrayNext ==
    \/ FHandleRuns /\ vehicle = "connected" /\ FStart
    \/ FHandleRuns /\ FStopSignal
    \/ FHandleRuns /\ FStopJoin
    \/ FHandleRuns /\ FStopJoinTimeout
    \/ FSwitch
    \/ FReap
    \/ FDisconnect
    \/ FollowLoopNext

-----------------------------------------------------------------------------
(* main.py: the start command, quit, and shutdown().                       *)

\* After setup_system: both objects constructed, the vehicle connected.
MainInit == mainpc = "interactive" /\ vehicle = "connected"

\* A step of the main thread that only moves it on.
MainGoto(from, to) ==
    /\ mainpc = from
    /\ mainpc' = to
    /\ UNCHANGED <<vehicle, calcVars, visionVars, followVars, readVars, strayVars>>

\* Line 92: the start command is read; it is given while not yet following.
CmdStart == ~is_following /\ MainGoto("interactive", "start_vision")

\* Line 94: vision_tracker.start().
MainStartVision == mainpc = "start_vision" /\ (VStart \/ VStartFails)

\* Line 94 has returned (also at once, when the tracker was running already).
MainVisionStarted == is_running /\ MainGoto("start_vision", "start_follow")

\* The mutant of MainVisionFailed: the RuntimeError of line 94 is swallowed
\* around that line alone and the command goes on to line 95.
MainVisionFailedGoesOn ==
    ~is_running /\ cap = "unopened" /\ MainGoto("start_vision", "start_follow")

\* Line 94 raised RuntimeError: caught at line 160, back to the prompt.
MainVisionFailed ==
    ~is_running /\ cap = "unopened" /\ MainGoto("start_vision", "interactive")

\* Line 95: follow_controller.start_following(vision_tracker).
MainStartFollow == mainpc = "start_follow" /\ FStart

\* Line 95 has returned (also at once, when already following).
MainFollowStarted == is_following /\ MainGoto("start_follow", "interactive")

\* Lines 151-153 or a signal: run_interactive_mode returns, main() calls
\* shutdown() in its finally block.
CmdQuit == MainGoto("interactive", "shutdown")

\* Line 170: if vision_tracker and vision_tracker.is_running
ShutdownCheckVision ==
    MainGoto("shutdown", IF is_running THEN "stop_vision" ELSE "shutdown_follow")

\* Line 171: vision_tracker.stop().
ShutdownStopVision == mainpc = "stop_vision" /\ (VStopSignal \/ VStopJoin)

\* Line 171 has returned.
ShutdownVisionStopped ==
    ~is_running /\ vmain = "idle" /\ MainGoto("stop_vision", "shutdown_follow")

\* Line 174: if follow_controller and follow_controller.is_following
ShutdownCheckFollow ==
    MainGoto("shutdown_follow",
             IF is_following THEN "stop_follow" ELSE "disconnect")

\* Line 175: follow_controller.stop_following().
ShutdownStopFollow == mainpc = "stop_follow" /\ (FStopSignal \/ FStopJoin)

\* Line 175 has returned.
ShutdownFollowStopped ==
    ~is_following /\ fmain = "idle" /\ MainGoto("stop_follow", "return_home")

\* Line 176: return_to_home(); its stop_following() finds nothing to stop.
ShutdownReturnHome ==
    /\ mainpc = "return_home"
    /\ vehicle' = "rtl"
    /\ mainpc' = "disconnect"
    /\ UNCHANGED <<calcVars, visionVars, followVars, readVars, strayVars>>

\* Lines 179-180: follow_controller.disconnect() closes the vehicle.
ShutdownDisconnect ==
    /\ mainpc = "disconnect"
    /\ vehicle' = "closed"
    /\ mainpc' = "exit"
    /\ UNCHANGED <<calcVars, visionVars, followVars, readVars, strayVars>>

MainNext ==
    \/ CmdStart
    \/ MainStartVision
    \/ MainVisionStarted
    \/ MainVisionFailed
    \/ MainStartFollow
    \/ MainFollowStarted
    \/ CmdQuit
    \/ ShutdownCheckVision
    \/ ShutdownStopVision
    \/ ShutdownVisionStopped
    \/ ShutdownCheckFollow
    \/ ShutdownStopFollow
    \/ ShutdownFollowStopped
    \/ ShutdownReturnHome
    \/ ShutdownDisconnect

-----------------------------------------------------------------------------
(* Specifications.                                                         *)

\* The components run on their own: no reader thread, no main program.
ReaderInit == rpc = "idle" /\ r_seen = None
NoMain == mainpc = "none" /\ vehicle = "connected"
\* After construction each object has at most the thread its attribute names.
NoStrays == v_parked = None /\ f_parked = None /\ cpc = "idle"
Standalone == ReaderInit /\ NoMain /\ NoStrays

InitCalc ==
    InitCalcRun /\ VisionInit /\ FollowInitWith({DefaultDistance}) /\ Standalone
CalcNext == Calculate
SpecCalc == InitCalc /\ [][CalcNext]_vars

InitCtor ==
    InitCtorRun /\ VisionInit /\ FollowInitWith({DefaultDistance}) /\ Standalone
CtorNext == Construct
SpecCtor == InitCtor /\ [][CtorNext]_vars

InitPx ==
    InitPxRun /\ VisionInit /\ FollowInitWith({DefaultDistance}) /\ Standalone
PxNext == Perceive
SpecPx == InitPx /\ [][PxNext]_vars

InitVision ==
    CalcIdle /\ VisionInit /\ FollowInitWith({DefaultDistance}) /\ Standalone
SpecVision == InitVision /\ [][VisionNext]_vars

\* start() called before any frame has been processed: the first session.
FirstStart == lastCycle = "none" /\ VStart

\* The first vision session, from start() to the end of stop(), with a reader
\* thread beside it.
ReadNext ==
    \/ FirstStart
    \/ VStartFails
    \/ VStopSignal
    \/ VStopJoin
    \/ VLoopBegin
    \/ VLoopCheck
    \/ VReadFails
    \/ VRead
    \/ VDetectNone
    \/ VDetectBox
    \/ VTrackOk
    \/ VTrackFails
    \/ ReaderNext
SpecRead == InitVision /\ [][ReadNext]_vars

InitFollow == CalcIdle /\ VisionInit /\ FollowInit /\ Standalone
SpecFollow == InitFollow /\ [][FollowNext]_vars

\* main.py with both worker threads: start, quit, shutdown().
InitShutdown ==
    CalcIdle /\ VisionInit /\ FollowInitWith({DefaultDistance}) /\ ReaderInit
        /\ MainInit /\ NoStrays
ShutdownNext == MainNext \/ VisionLoopNext \/ FollowLoopNext
SpecShutdown == InitShutdown /\ [][ShutdownNext]_vars

\* VisionTracker with joins that may time out: with callers of
\* capture_frame, and with restarts beside a dropped thread.
SpecCamera == InitVision /\ [][CameraNext]_vars
SpecVisionStray == InitVision /\ [][VisionStrayNext]_vars

\* FollowController with joins that may time out, up to disconnect().
InitFollowStray ==
    CalcIdle /\ VisionInit /\ FollowInitWith({DefaultDistance}) /\ Standalone
SpecFollowStray == InitFollowStray /\ [][FollowStrayNext]_vars

\* Either a run of the pure function or a run of the follow loop.
InitVelocity == InitCalc \/ InitFollow
VelocityNext == Calculate \/ (calc_in = None /\ FollowNext)
SpecVelocity == InitVelocity /\ [][VelocityNext]_vars

-----------------------------------------------------------------------------
(* Claims.                                                                 *)

\* C1: after a cycle in which the detector found nobody, and until the next
\* successful detection, get_target_position() returns None.
C1_AbsentAfterEmptyDetection ==
    lastCycle = "detect_none" => target_position = None

\* C2: after a cycle in which tracker.update reported failure, and until a
\* later cycle publishes a fresh position, get_target_position() returns None.
C2_AbsentAfterTrackerFailure ==
    lastCycle = "track_fail" => target_position = None

\* C3: a follow-loop tick that read no target sends exactly one command, the
\* command is (0, 0, 0), and the tick computes nothing from the profile.
C3_HoverOnNoTarget ==
    (f_target = None /\ fpc \in {"hover", "sleep"}) =>
        /\ tickProfile = None
        /\ fpc = "hover" => tickCmds = <<>>
        /\ fpc = "sleep" => /\ Len(tickCmds) = 1
                            /\ tickCmds[1].v = ZeroVector

\* C3 witness: a tick without target has ended with its one hover command sent.
C3_Witness ==
    /\ fpc = "sleep"
    /\ f_target = None
    /\ tickCmds = <<Command(ZeroVector, TRUE)>>
    /\ movement_vector # None
    /\ movement_vector # ZeroVector

\* C4: once the loop has seen the stop signal it sends exactly one more
\* command, (0, 0, 0), and with it the thread has ended.
C4_FinalHover ==
    /\ fpc = "final" => afterStop = <<>>
    /\ fpc = "done" => /\ Len(afterStop) = 1
                       /\ afterStop[1].v = ZeroVector
    /\ fpc \in {"check", "get", "hover", "position", "calc", "vector", "send",
                "sleep"}
          => afterStop = <<>>

\* C4 witness: a loop that sent a steering command has ended on the hover.
C4_Witness ==
    /\ fpc = "done"
    /\ afterStop = <<Command(ZeroVector, TRUE)>>
    /\ Len(tickCmds) = 1
    /\ tickCmds[1].v # ZeroVector

AtTarget ==
    /\ calc_in.current = calc_in.target
    /\ calc_in.profile.horizontal_offset = RZero
    /\ calc_in.profile.altitude = None

\* C6 as stated: at the target, with no offset and no altitude, the result
\* is the zero vector for any target_distance.
C6_ZeroAtTarget ==
    (calc_out # None /\ AtTarget) => calc_out = ZeroVector

\* C6 amended: at the target, with no offset and no altitude, the result is
\* (-min(target_distance, max_speed), 0, 0): zero only for target_distance 0.
C6_RetreatAtTarget ==
    (calc_out # None /\ AtTarget) =>
        LET td == calc_in.profile.target_distance
            ms == calc_in.profile.max_speed
        IN  /\ calc_out = <<RealOf(RNeg(IF RLe(td, ms) THEN td ELSE ms)),
                            RealOf(RZero), RealOf(RZero)>>
            /\ calc_out = ZeroVector <=> td = RZero

\* C6 witness: at the target with target_distance 0 the result is zero.
C6_Witness ==
    /\ calc_out = ZeroVector
    /\ AtTarget
    /\ calc_in.profile.target_distance = RZero

\* The inputs of the example of C7.
C7_Example ==
    [profile |-> DistanceProfile(RInt(5), None, RZero, Rat(1, 2), RInt(2)),
     current |-> <<RZero, RZero, RZero>>,
     target |-> <<RInt(10), RZero, RZero>>]

\* C7: the result is the raw displacement when that is no longer than
\* max_speed (zero when it is zero), and otherwise the raw displacement
\* scaled by max_speed / |displacement|; the example gives (2, 0, 0).
C7_DirectionPreserved ==
    calc_out # None =>
        LET raw == RawDisplacement(calc_in.profile, calc_in.current,
                                   calc_in.target)
            mag2 == RAdd(RAdd(RSq(raw[1]), RSq(raw[2])), RSq(raw[3]))
            ms2 == RSq(calc_in.profile.max_speed)
        IN  /\ RLe(mag2, ms2) =>
                  \A i \in 1..3 : calc_out[i] = RealOf(raw[i])
            /\ RLt(ms2, mag2) =>
                  \A i \in 1..3 :
                      /\ RealSign(calc_out[i]) = RealSign(RealOf(raw[i]))
                      /\ RMul(RealSq(calc_out[i]), mag2) = RMul(RSq(raw[i]), ms2)
            /\ calc_in = C7_Example =>
                  calc_out = <<RealOf(RInt(2)), RealOf(RZero), RealOf(RZero)>>

\* C7 witness: the example has been computed.
C7_Witness ==
    /\ calc_in = C7_Example
    /\ calc_out = <<RealOf(RInt(2)), RealOf(RZero), RealOf(RZero)>>

\* C8: the frame processed after a tracker.update failure goes to the
\* detector, so no two tracker.update calls follow one another after a failure.
C8_RedetectAfterFailure ==
    prevCycle = "track_fail" => lastCycle \in {"detect_none", "detect_box"}

\* C8 witness: a failure, then a detection before the interval had elapsed.
C8_Witness ==
    /\ prevCycle = "track_fail"
    /\ lastCycle = "detect_box"
    /\ vpc = "check"
    /\ last_detection_time = current_time

\* C9: _update_target_position is never given a box of width 0.
C9_ZeroWidthRejected ==
    estimator_bbox # None => estimator_bbox[3] # 0

\* C10: a raise of send_velocity_command in a tick does not end the loop: it
\* sleeps, goes round, and with the stop signal not set starts the next tick.
C10_ContinuesAfterSinkError ==
    [][/\ (fpc \in {"hover", "send"} /\ tickCmds' # tickCmds
              /\ ~tickCmds'[Len(tickCmds')].ok) => fpc' = "sleep"
       /\ (fpc = "sleep" /\ fpc' # fpc) => fpc' = "check"
       /\ (fpc = "check" /\ fpc' # fpc /\ ~f_stop_event) => fpc' = "get"]_vars

\* C10 witness: the tick after one whose command raised has begun.
C10_Witness ==
    /\ fpc = "get"
    /\ ~f_stop_event
    /\ Len(tickCmds) = 1
    /\ ~tickCmds[1].ok
    /\ tickCmds[1].v # ZeroVector

\* C11: the vector a tick computed comes from one single profile, and that
\* profile was the active one at some moment since the tick began: never a
\* mix of two profiles, never a profile replaced before the tick began.
C11_AtomicProfileSwap ==
    (fpc \in {"send", "sleep"} /\ f_target # None) =>
        \E profile \in tickActive :
            /\ movement_vector =
                   calculate_movement_vector(profile, f_current, f_target)
            /\ \A i \in 1..Len(tickCmds) : tickCmds[i].v = movement_vector

\* C11 witness: the profile was changed while a tick was computing, and the
\* tick's vector is the one of the profile it began with.
C11_Witness ==
    /\ fpc = "send"
    /\ Cardinality(tickActive) = 2
    /\ tickProfile # tracking_profile
    /\ movement_vector =
           calculate_movement_vector(tickProfile, f_current, f_target)
    /\ movement_vector #
           calculate_movement_vector(tracking_profile, f_current, f_target)

\* C12: a call of get_target_position() or get_target_distance() never
\* fails, and the triple it sees is one the slot held, whole, at some moment
\* of the call.
C12_NoTornRead ==
    r_seen # None =>
        /\ ~r_seen.failed
        /\ r_seen.value \in published

\* C12 witness: get_target_distance() passed its absent check on one triple,
\* the loop stored another, and the call unpacked the new one.
C12_Witness ==
    /\ rpc = "idle"
    /\ r_seen # None
    /\ ~r_seen.failed
    /\ r_seen.value # None
    /\ Cardinality(published) = 2
    /\ r_seen.value = target_position

\* C13: in shutdown() the camera is released only when the follow loop has
\* been signalled and joined (or was never started), and the vehicle is
\* closed only when both loops have been signalled and joined.
C13_TeardownAfterBothStopped ==
    /\ (mainpc = "stop_vision" /\ cap = "none") =>
           (~is_following /\ fpc = "none")
    /\ vehicle = "closed" =>
           /\ ~is_running /\ vpc = "none"
           /\ ~is_following /\ fpc = "none"

\* C14: the controller's active profile is the preset of the distance last
\* asked for: Close up to 3, Medium above 3 up to 5, Far above 5 up to 10,
\* VeryFar above 10; the preset's target_distance does not decrease when the
\* distance asked for grows.
C14_ProfileSelection ==
    /\ RLe(requested, RInt(3)) => tracking_profile = CloseProfile
    /\ (RLt(RInt(3), requested) /\ RLe(requested, RInt(5))) =>
           tracking_profile = MediumProfile
    /\ (RLt(RInt(5), requested) /\ RLe(requested, RInt(10))) =>
           tracking_profile = FarProfile
    /\ RLt(RInt(10), requested) => tracking_profile = VeryFarProfile
    /\ \A d1, d2 \in RequestedDistances :
           RLe(d1, d2) => RLe(get_profile(d1).target_distance,
                              get_profile(d2).target_distance)
    /\ get_profile(RInt(3)) = CloseProfile
    /\ get_profile(Rat(301, 100)) = MediumProfile
    /\ get_profile(RInt(5)) = MediumProfile
    /\ get_profile(RInt(10)) = FarProfile
    /\ get_profile(Rat(1001, 100)) = VeryFarProfile

\* C14 witness: a tick computed with Close, then change_tracking_distance(3.01)
\* installed Medium.
C14_Witness ==
    /\ fpc = "send"
    /\ tickProfile = CloseProfile
    /\ requested = Rat(301, 100)
    /\ tracking_profile = MediumProfile

\* C15: DistanceProfile(...) with max_speed <= 0 or distance_tolerance < 0
\* raises, so no object with such a field exists.
C15_InvalidProfileRejected ==
    ctor_out # None =>
        /\ (RLe(ctor_in.max_speed, RZero)
               \/ RLt(ctor_in.distance_tolerance, RZero)) => ctor_out.raised
        /\ ~ctor_out.raised =>
               /\ RLt(RZero, ctor_out.object.max_speed)
               /\ RLe(RZero, ctor_out.object.distance_tolerance)

\* C16: the box selected among the detector's boxes has an area no smaller
\* than any of them and is the earliest of those with that area; of
\* (0,0,50,50) and (10,10,80,80) the second is selected.
C16_LargestFirst ==
    px_out # None =>
        LET boxes == px_in.boxes
            selected == px_out.largest_box
        IN  /\ \E k \in 1..Len(boxes) :
                   /\ boxes[k] = selected
                   /\ \A j \in 1..Len(boxes) : Area(boxes[j]) <= Area(selected)
                   /\ \A j \in 1..(k - 1) : Area(boxes[j]) < Area(selected)
            /\ boxes = <<<<0, 0, 50, 50>>, <<10, 10, 80, 80>>>> =>
                   selected = <<10, 10, 80, 80>>
            /\ px_in.width <= ResizeWidth => px_out.bbox = selected

\* C16 witness: of three boxes of area 3600 the first was selected.
C16_Witness ==
    /\ px_out # None
    /\ px_in.boxes = <<<<1, 1, 60, 60>>, <<20, 40, 90, 40>>, <<5, 5, 40, 90>>>>
    /\ px_out.largest_box = <<1, 1, 60, 60>>

\* C17: for a box of width w > 0 the estimate's north component is
\* real_width * focal_length / w (4 for w = 100), a box of half the width
\* gives twice that, and the east component is minus (box centre x - frame
\* centre x) * real_width / w, the centres being x + w // 2 and width // 2.
C17_PinholeEstimate ==
    (px_out # None /\ px_out.bbox[3] > 0) =>
        LET x == px_out.bbox[1]
            w == px_out.bbox[3]
            north == px_out.position[1]
            east == px_out.position[2]
            half == <<x, px_out.bbox[2], w \div 2, px_out.bbox[4]>>
        IN  /\ ~px_out.raised
            /\ RMul(north, RInt(w)) = RMul(Rat(1, 2), RInt(800))
            /\ w = 100 => north = RInt(4)
            /\ (w % 2 = 0) =>
                   EstimatePosition(half, px_in.width)[1] = RMul(RInt(2), north)
            /\ RMul(east, RInt(2 * w)) =
                   RInt(-((x + w \div 2) - (px_in.width \div 2)))

\* C17 witness: a box of width 100, left of the frame centre, gives 4 m
\* north and 0.85 m east.
C17_Witness ==
    /\ px_out # None
    /\ px_out.bbox = <<100, 50, 100, 200>>
    /\ px_in.width = 640
    /\ px_out.position = <<RInt(4), Rat(17, 20), AssumedDown>>

\* C18: the first frame a session reads is given to the detector: it is
\* neither given to tracker.update nor dropped.
C18_FirstFrameDetected ==
    sessionFrames = 1 => lastCycle \in {"detect_none", "detect_box"}

\* C19: a cycle with a frame runs exactly one of detector and tracker.update:
\* the detector when the interval has elapsed since the last successful
\* detection, or the box is absent, or the frame before was a failed tracker
\* update; tracker.update otherwise, and only on a tracker this session's
\* detection initialised.
C19_ExactlyOneCapability ==
    [][(vpc = "frame" /\ vpc' # "frame") =>
          LET due == \/ (current_time - lastSuccess) >= DetectionInterval
                     \/ target_bbox = None
                     \/ lastCycle = "track_fail"
              detects == lastCycle' \in {"detect_none", "detect_box"}
              tracks == lastCycle' \in {"track_ok", "track_fail"}
          IN  /\ detects <=> due
              /\ tracks <=> ~due
              /\ tracks => (tracking_initialized /\ tracker = "initialised")]_vars

\* C20: an iteration whose read fails leaves target_bbox, target_position,
\* last_detection_time, the tracker and the initialised flag as they were,
\* and processes no frame.
C20_ReadFailureChangesNothing ==
    [][(vpc = "read" /\ vpc' = "check") =>
          UNCHANGED <<target_bbox, target_position, last_detection_time,
                      tracker, tracking_initialized, lastCycle, prevCycle,
                      sessionFrames, estimator_bbox>>]_vars

\* C20 witness: a read failed, with the clock moving on, while a target was
\* being tracked.
C20_Witness ==
    /\ vpc = "check"
    /\ now > current_time
    /\ tracking_initialized
    /\ target_bbox # None
    /\ target_position # None
    /\ last_detection_time = current_time

\* C27: in the follow loop, with a profile whose altitude is set, the down
\* component of the vector handed to the sink is zero when the vehicle's
\* relative altitude equals the profile's altitude, negative (climb) when
\* the vehicle is below it and positive (descend) when it is above it.
C27_VerticalTowardAltitude ==
    (fpc = "send" /\ tickProfile.altitude # None) =>
        LET relative_alt == RNeg(f_current[3])
            down == RealSign(movement_vector[3])
        IN  /\ relative_alt = tickProfile.altitude => down = 0
            /\ RLt(relative_alt, tickProfile.altitude) => down < 0
            /\ RLt(tickProfile.altitude, relative_alt) => down > 0

\* C28: when start() fails to open the camera, is_running stays False and no
\* tracking thread exists; the start command that called it does not reach
\* start_following: is_following stays False, no follow loop runs and no
\* velocity command has been sent.
C28_FailedStartStartsNothing ==
    /\ cap = "unopened" =>
          /\ ~is_running
          /\ vpc = "none"
          /\ ~is_following
          /\ fpc = "none"
          /\ tickCmds = <<>>
          /\ afterStop = <<>>
    /\ mainpc = "start_follow" => (is_running /\ cap = "open")

\* C28 witness: the start command has returned to the prompt after start()
\* raised.
C28_Witness ==
    /\ mainpc = "interactive"
    /\ cap = "unopened"
    /\ ~is_running

\* C26: once VisionTracker.stop() has returned, the target slot holds None,
\* and a follow-loop tick that begins from then on reads None (and so sends
\* the hover command).
C26_AbsentAfterStop ==
    [][(~is_running /\ vmain = "idle") =>
          /\ target_position = None
          /\ (fpc = "get" /\ fpc' # "get") => f_target' = None]_vars

\* C21: each loop polls its stop event once per iteration on every path, so
\* from the moment stop() / stop_following() sets the event the loop ends at
\* most one more iteration (the one in progress) before the poll ends it.
C21_OneMoreIteration == v_laps <= 1 /\ f_laps <= 1

\* C21 witness: both loops were signalled in the middle of an iteration,
\* ended it, and the follow loop has terminated after the vision loop.
C21_Witness ==
    /\ v_laps = 1
    /\ f_laps = 1
    /\ vpc = "none"
    /\ fpc = "done"
    /\ v_stop_event
    /\ f_stop_event

\* C22: while a _tracking_loop thread has not ended, the camera stays open
\* (stop() releases it only once the loop has terminated) and no caller of
\* capture_frame() is reading from it.
C22_CameraOwnedByLoop ==
    LET parked_live == IF v_parked = None THEN FALSE ELSE Live(v_parked.pc)
    IN  (Live(vpc) \/ parked_live) => (cap = "open" /\ cpc = "idle")

\* C23: across start() and stop() calls at most one _tracking_loop thread is
\* live at any time.
C23_OneTrackingLoop ==
    LET parked_live == IF v_parked = None THEN FALSE ELSE Live(v_parked.pc)
    IN  ~(Live(vpc) /\ parked_live)

\* C24: across start_following() and stop_following() calls at most one
\* follow_loop thread is live, and so sending velocity commands, at any time.
C24_OneFollowLoop ==
    LET parked_live == IF f_parked = None THEN FALSE ELSE Live(f_parked.pc)
    IN  ~(Live(fpc) /\ parked_live)

\* C25: once stop_following() has returned and until start_following() is
\* called again, every velocity command sent is the zero command; once
\* disconnect() has closed the vehicle, none is sent at all.
C25_QuietAfterStop ==
    [][LET in_tick == Len(tickCmds') = Len(tickCmds) + 1
           at_end == Len(afterStop') = Len(afterStop) + 1
       IN  /\ (~is_following /\ fmain = "idle" /\ in_tick) =>
                  tickCmds'[Len(tickCmds')].v = ZeroVector
           /\ vehicle = "closed" => ~(in_tick \/ at_end)]_vars

====
